---- MODULE Spec2Model ----
(***************************************************************************)
(* Bionic Reading for TypingMind: the text transformer (getBoldLength,     *)
(* shouldSkipWord, processWord, transformText), the queue pipeline of the  *)
(* V3 extension (queueNode, processBatch, processTextNode, the observers,  *)
(* toggleExtension, init) and the Streaming Stability Detector.            *)
(*                                                                         *)
(* A string is a sequence of one-character strings.                        *)
(***************************************************************************)
EXTENDS Integers, Sequences, FiniteSets, TLC

\* ------------------------------------------------------------------------
\* Bounds of the model
\* ------------------------------------------------------------------------

\* Longest text enumerated exhaustively over Alphabet.
MaxLen == 5

\* CONFIG.MAX_BATCH_SIZE, 50 in the source, scaled down.
MAX_BATCH_SIZE == 3

\* The queue length above which queueNode drops the node, 1000 in the
\* source, scaled down.
QUEUE_LIMIT == 3

\* The clock of the stability detector stops here (in units of 100 ms)
MaxTime == 16

\* ------------------------------------------------------------------------
\* Characters
\* ------------------------------------------------------------------------

Lower == {"a","b","c","d","e","f","g","h","i","j","k","l","m",
          "n","o","p","q","r","s","t","u","v","w","x","y","z"}

Digit == {"0","1","2","3","4","5","6","7","8","9"}

HexDigit == Digit \cup {"a","b","c","d","e","f"}

\* \s of the regular expressions, as far as the inputs use it.
Space == {" ", "\t", "\n"}

\* [\p{L}\p{N}]
IsLN(c) == c \in Lower \cup Digit

\* The characters the exhaustive inputs are made of.
Alphabet == {"a", "1", "<", ">", "-", " "}

\* ------------------------------------------------------------------------
\* Sequence helpers
\* ------------------------------------------------------------------------

Slice(s, from, to) == IF from > to THEN <<>> ELSE SubSeq(s, from, to)

Includes(s, c) == \E i \in 1..Len(s) : s[i] = c

StartsWith(s, p) == Len(s) >= Len(p) /\ SubSeq(s, 1, Len(p)) = p

\* s.includes(p) for a string p
IncludesStr(s, p) ==
    \E i \in 1..(Len(s) - Len(p) + 1) : SubSeq(s, i, i + Len(p) - 1) = p

AllIn(s, S) == \A i \in 1..Len(s) : s[i] \in S

RECURSIVE Concat(_)
Concat(ss) == IF ss = <<>> THEN <<>> ELSE Head(ss) \o Concat(Tail(ss))

\* s.split(c) for a single character c
RECURSIVE SplitChar(_, _)
SplitChar(s, c) ==
    IF ~Includes(s, c) THEN <<s>>
    ELSE LET i == CHOOSE k \in 1..Len(s) :
                     s[k] = c /\ \A j \in 1..(k - 1) : s[j] # c
         IN  <<Slice(s, 1, i - 1)>> \o SplitChar(Slice(s, i + 1, Len(s)), c)

\* parts.join(c)
RECURSIVE JoinChar(_, _)
JoinChar(parts, c) ==
    IF Len(parts) = 0 THEN <<>>
    ELSE IF Len(parts) = 1 THEN parts[1]
    ELSE parts[1] \o <<c>> \o JoinChar(Tail(parts), c)

\* Length of the longest prefix of s made of characters of S.
RECURSIVE RunLen(_, _)
RunLen(s, S) ==
    IF s = <<>> \/ Head(s) \notin S THEN 0 ELSE 1 + RunLen(Tail(s), S)

\* ------------------------------------------------------------------------
\* Emphasis algorithm
\* ------------------------------------------------------------------------

\* BOLD_RATIO = 0.43 as a fraction
BoldRatioNum == 43
BoldRatioDen == 100

\* getBoldLength with a ratio of one half
getBoldLength_Half(wordLength) ==
    IF wordLength <= 3 THEN 1 ELSE (wordLength + 1) \div 2

\* getBoldLength(wordLength) with CONFIG.BOLD_RATIO = num / den;
\* Math.round(x) is floor(x + 1/2)
getBoldLengthAt(wordLength, num, den) ==
    IF wordLength <= 3 THEN 1
    ELSE (2 * wordLength * num + den) \div (2 * den)

getBoldLength(wordLength) == getBoldLengthAt(wordLength, BoldRatioNum, BoldRatioDen)

BOpen == <<"<", "b", ">">>
BClose == <<"<", "/", "b", ">">>

\* `<b>${part.slice(0, len)}</b>${part.slice(len)}`
Bold(part, len) ==
    LET n == IF len > Len(part) THEN Len(part) ELSE len
    IN  BOpen \o Slice(part, 1, n) \o BClose \o Slice(part, n + 1, Len(part))

\* ------------------------------------------------------------------------
\* Exclusion classifier
\* ------------------------------------------------------------------------

\* /^\s*$/
ReWhitespace(w) == AllIn(w, Space)

\* /^\d+([.,]\d+)*%?$/
ReNumeric(w) ==
    LET body == IF Len(w) > 0 /\ w[Len(w)] = "%" THEN Slice(w, 1, Len(w) - 1) ELSE w
    IN  /\ Len(body) > 0
        /\ AllIn(body, Digit \cup {".", ","})
        /\ body[1] \in Digit
        /\ body[Len(body)] \in Digit
        /\ \A i \in 1..(Len(body) - 1) : body[i] \in Digit \/ body[i + 1] \in Digit

\* /^(https?:\/\/|www\.|mailto:|tel:|ftp:)/i
UrlPrefixes ==
    { <<"h","t","t","p",":","/","/">>, <<"h","t","t","p","s",":","/","/">>,
      <<"w","w","w",".">>, <<"m","a","i","l","t","o",":">>,
      <<"t","e","l",":">>, <<"f","t","p",":">> }

ReUrl(w) == \E p \in UrlPrefixes : StartsWith(w, p)

\* /^v?\d+\.\d+/i
ReVersion(w) ==
    LET r == IF Len(w) > 0 /\ w[1] = "v" THEN Tail(w) ELSE w
        n == RunLen(r, Digit)
    IN  n >= 1 /\ Len(r) >= n + 2 /\ r[n + 1] = "." /\ r[n + 2] \in Digit

\* /^[0-9a-f]{8}-/i
ReUuid_ThreeGroups(w) ==
    /\ Len(w) >= 18
    /\ AllIn(SubSeq(w, 1, 8), HexDigit) /\ w[9] = "-"
    /\ AllIn(SubSeq(w, 10, 13), HexDigit) /\ w[14] = "-"
    /\ AllIn(SubSeq(w, 15, 18), HexDigit)

ReUuid(w) == Len(w) >= 9 /\ AllIn(SubSeq(w, 1, 8), HexDigit) /\ w[9] = "-"

\* /^\d{1,4}[-/]\d{1,2}/
ReDate(w) ==
    LET n == RunLen(w, Digit)
    IN  n >= 1 /\ n <= 4 /\ Len(w) >= n + 2
        /\ w[n + 1] \in {"-", "/"} /\ w[n + 2] \in Digit

\* /^\d{1,2}:\d{2}/
ReTime(w) ==
    LET n == RunLen(w, Digit)
    IN  n >= 1 /\ n <= 2 /\ Len(w) >= n + 3
        /\ w[n + 1] = ":" /\ w[n + 2] \in Digit /\ w[n + 3] \in Digit

shouldSkipWord(word) ==
    \/ Len(word) < 2
    \/ ReWhitespace(word)
    \/ ReNumeric(word)
    \/ Len(word) > 4 /\ (ReUrl(word) \/ ReVersion(word) \/ ReUuid(word))
    \/ Includes(word, ":") /\ ReTime(word)
    \/ (Includes(word, "-") \/ Includes(word, "/")) /\ ReDate(word)
    \/ /\ Includes(word, ".")
       /\ Len(word) < 20
       /\ LET parts == SplitChar(word, ".")
          IN  /\ Len(parts) = 2
              /\ Len(parts[2]) <= 5
              /\ Len(parts[2]) >= 1
              /\ AllIn(parts[2], Lower \cup Digit)

\* ------------------------------------------------------------------------
\* Text transformer
\* ------------------------------------------------------------------------

\* Separators inside a core: [-'']
CoreSep == {"-", "'"}

\* REGEX.WORD_PARTS: the leading run of other characters, the core of
\* letters and digits joined by single separators, the trailing run of other
\* characters.  matched is FALSE when the pattern does not match.
WordParts(word) ==
    LET LN == Lower \cup Digit
        n == Len(word)
        p == IF \E i \in 1..n : word[i] \in LN
             THEN (CHOOSE i \in 1..n :
                       word[i] \in LN /\ \A j \in 1..(i - 1) : word[j] \notin LN) - 1
             ELSE n
        q == IF \E i \in 1..n : word[i] \in LN
             THEN CHOOSE i \in 1..n :
                       word[i] \in LN /\ \A j \in (i + 1)..n : word[j] \notin LN
             ELSE 0
        core == Slice(word, p + 1, q)
        ok == /\ Len(core) >= 1
              /\ AllIn(core, LN \cup CoreSep)
              /\ \A i \in 1..(Len(core) - 1) : core[i] \in LN \/ core[i + 1] \in LN
    IN  [matched |-> ok, prefix |-> Slice(word, 1, p), core |-> core,
         suffix |-> Slice(word, q + 1, n)]

\* One hyphen-delimited part of a core
processPart(part) ==
    IF Len(part) >= 1 /\ AllIn(part, Digit) THEN part
    ELSE IF Len(part) > 1 THEN Bold(part, getBoldLength(Len(part)))
    ELSE part

RECURSIVE MapParts(_)
MapParts(parts) ==
    IF parts = <<>> THEN <<>> ELSE <<processPart(Head(parts))>> \o MapParts(Tail(parts))

processWord(word) ==
    IF word = <<>> \/ shouldSkipWord(word) THEN word
    ELSE LET m == WordParts(word)
         IN  IF ~m.matched THEN word
             ELSE IF Len(m.core) < 2 THEN word
             ELSE IF Includes(m.core, "-")
                  THEN m.prefix \o JoinChar(MapParts(SplitChar(m.core, "-")), "-") \o m.suffix
                  ELSE m.prefix \o Bold(m.core, getBoldLength(Len(m.core))) \o m.suffix

\* text.split(/(\s+)/): the maximal runs of whitespace and of other
\* characters, in order (the empty strings split() adds at the ends
\* contribute nothing to the result).
RECURSIVE SplitRuns(_)
SplitRuns(text) ==
    IF text = <<>> THEN <<>>
    ELSE LET ws == RunLen(text, Space)
             k == IF ws > 0 THEN ws
                  ELSE IF \E i \in 1..Len(text) : text[i] \in Space
                       THEN (CHOOSE i \in 1..Len(text) :
                                 text[i] \in Space
                                 /\ \A j \in 1..(i - 1) : text[j] \notin Space) - 1
                       ELSE Len(text)
         IN  <<SubSeq(text, 1, k)>> \o SplitRuns(Slice(text, k + 1, Len(text)))

RECURSIVE MapWords(_)
MapWords(words) ==
    IF words = <<>> THEN <<>>
    ELSE LET word == Head(words)
         IN  (IF \E i \in 1..Len(word) : word[i] \in Space
              THEN word ELSE processWord(word)) \o MapWords(Tail(words))

transformText(text) ==
    IF Len(text) < 3 THEN text
    ELSE IF ~\E i \in 1..Len(text) : IsLN(text[i]) THEN text
    ELSE MapWords(SplitRuns(text))

\* ------------------------------------------------------------------------
\* The host's HTML parser: span.innerHTML = html, then span.textContent
\* ------------------------------------------------------------------------

\* The named character references the inputs can spell, each decoded with or
\* without its semicolon.
NamedRefs ==
    { [name |-> <<"a","m","p">>, char |-> "&"],
      [name |-> <<"l","t">>, char |-> "<"],
      [name |-> <<"g","t">>, char |-> ">"] }

\* The text after the first ">" at index from or later; no ">" before the end
\* of the input: the unfinished tag is dropped with everything in it.
AfterTag(s, from) ==
    IF \E i \in from..Len(s) : s[i] = ">"
    THEN LET i == CHOOSE k \in from..Len(s) :
                      s[k] = ">" /\ \A j \in from..(k - 1) : s[j] # ">"
         IN  [closed |-> TRUE, rest |-> Slice(s, i + 1, Len(s))]
    ELSE [closed |-> FALSE, rest |-> <<>>]

\* The character tokens of the HTML tokenizer's data state, which are the
\* textContent of the element the fragment is parsed into: "<" followed by a
\* letter opens a tag, "</" an end tag or a bogus comment, "<!" and "<?" a
\* comment, "&name" a character reference; everything else is text.
RECURSIVE textContent(_)
textContent(html) ==
    IF html = <<>> THEN <<>>
    ELSE IF Head(html) = "<" /\ Len(html) >= 2 /\ html[2] \in Lower
         THEN textContent(AfterTag(html, 3).rest)
    ELSE IF Head(html) = "<" /\ Len(html) >= 2 /\ html[2] \in {"!", "?"}
         THEN textContent(AfterTag(html, 3).rest)
    ELSE IF Head(html) = "<" /\ Len(html) >= 3 /\ html[2] = "/"
         THEN textContent(AfterTag(html, 3).rest)
    ELSE IF Head(html) = "&" /\ \E r \in NamedRefs : StartsWith(Tail(html), r.name)
         THEN LET r == CHOOSE x \in NamedRefs : StartsWith(Tail(html), x.name)
                  after == Slice(html, Len(r.name) + 2, Len(html))
              IN  <<r.char>> \o textContent(IF after # <<>> /\ Head(after) = ";"
                                            THEN Tail(after) ELSE after)
    ELSE <<Head(html)>> \o textContent(Tail(html))

\* processTextNode's test for replacing the node by a wrapper
\* (text !== bionicHtml && bionicHtml.includes('<b>'))
wrapsNode(text, bionicHtml) == text # bionicHtml /\ IncludesStr(bionicHtml, BOpen)

\* ------------------------------------------------------------------------
\* Inputs of the text transformer
\* ------------------------------------------------------------------------

\* Every string over Alphabet of length at most MaxLen
BoundedStrings == UNION { [1..n -> Alphabet] : n \in 0..MaxLen }

\* Texts with character references and the spec's examples
SampleTexts ==
    { <<"a","a"," ","&"," ","b","b">>,
      <<"a","a"," ","a","&","l","t",";","a">>,
      <<"a","a"," ","&","a","m","p",";">>,
      <<"c","a","t">>,
      <<"r","e","a","d","i","n","g">>,
      <<"s","e","l","f","-","t","a","u","g","h","t">> }

\* The spec's examples of excluded tokens
ExcludedTokens ==
    { <<"h","t","t","p","s",":","/","/","e","x","a","m","p","l","e",".","c","o","m","/","p","a","t","h">>,
      <<"1","2",",","3","4","5",".","6","7","%">>,
      <<"v","2",".","5",".","0">>,
      <<"a","1","b","2","c","3","d","4","-","e","5","f","6","-",".",".",".">>,
      <<"r","e","p","o","r","t",".","p","d","f">>,
      <<"1","2",":","3","0">>,
      <<"2","0","2","4","-","0","1","-","1","5">> }

\* Each of them as a unit of its own and between two words
ExclusionTexts ==
    ExcludedTokens \cup { <<"a","a"," ">> \o t \o <<" ","a","a">> : t \in ExcludedTokens }

\* Tokens that begin with a URL prefix and are no longer than 4 characters,
\* and one longer token
UrlTexts == { <<"t","e","l",":">>, <<"w","w","w",".">>, <<"f","t","p",":">>, <<"t","e","l",":","1","2">> }

TextInputs == BoundedStrings \cup SampleTexts \cup ExclusionTexts \cup UrlTexts

\* ------------------------------------------------------------------------
\* The document: response blocks, the places of their text nodes
\* ------------------------------------------------------------------------

\* An element as shouldSkipNode reads it
El(tag) == [tagName |-> tag, elementId |-> "", contentEditable |-> "inherit",
            className |-> ""]

\* The document node has no tagName
DocumentNode == [tagName |-> "", elementId |-> "", contentEditable |-> "",
                 className |-> ""]

Blocks == {1, 2}

\* A slot is a place in a block where the host puts one text node.
Slots == {1, 2, 3, 4, 5, 6}

SlotBlock(s) == IF s <= 2 THEN 1 ELSE 2

\* Document order inside a block
SlotsOf(b) == IF b = 1 THEN <<1, 2>> ELSE <<3, 5, 4, 6>>

\* The ancestors of a response block, from the block up to the document
BlockChain ==
    << [El("DIV") EXCEPT !.elementId = "response-block"],
       El("DIV"), El("MAIN"), El("BODY"), El("HTML"), DocumentNode >>

\* The elements between a slot's text node and its block, nearest first:
\*   1  a paragraph
\*   2  inline code inside a preformatted block
\*   3  a paragraph
\*   4  a preformatted block six levels above the text
\*   5  a paragraph of an editable region
\*   6  a paragraph of the user's note
SlotChain(s) ==
    CASE s = 1 -> << El("P") >>
      [] s = 2 -> << El("CODE"), El("PRE") >>
      [] s = 3 -> << El("P") >>
      [] s = 4 -> << El("SPAN"), El("SPAN"), El("SPAN"), El("SPAN"), El("SPAN"),
                     El("PRE") >>
      [] s = 5 -> << El("P"), [El("DIV") EXCEPT !.contentEditable = "true"] >>
      [] s = 6 -> << El("P"), [El("DIV") EXCEPT !.elementId = "user-note"] >>

\* The texts the host puts into a slot
SlotTexts(s) ==
    CASE s = 1 -> { <<"r","e","a","d","i","n","g">> }
      [] s = 2 -> { <<"r","e","a","d","i","n","g">> }
      [] s = 3 -> { <<"a","a"," ","<","a">>, <<"1","2">> }
      [] s = 4 -> { <<"r","e","a","d","i","n","g">> }
      [] s = 5 -> { <<"r","e","a","d","i","n","g">> }
      [] s = 6 -> { <<"r","e","a","d","i","n","g">> }

\* The slots whose text node is in the document from the start; the others
\* are streamed in later.
InitialSlots == {1, 2, 4, 5, 6}

\* The slots whose node the host may take out again
RemovableSlots == {1}

\* Block 2 is added by the host later.
InitialBlocks == {1}

\* A text node: the unit the host put into a slot, or one of the two text
\* nodes of the wrapper that replaced it (the emphasized prefix inside <b>,
\* the remainder after it).
Parts == {"unit", "bold", "rest"}

Node(s, part) == <<s, part>>

\* ------------------------------------------------------------------------
\* Eligibility filter
\* ------------------------------------------------------------------------

IGNORE_TAGS == {"PRE", "CODE", "SCRIPT", "STYLE", "TEXTAREA", "INPUT", "SVG",
                "PATH", "BUTTON", "NOSCRIPT"}

WrapperSpan == [El("SPAN") EXCEPT !.className = "bionic-text-wrapper"]

\* One level of the walk without the test for an existing wrapper
levelSkips_NoWrapperTest(el) ==
    /\ el.tagName # ""
    /\ \/ el.tagName \in IGNORE_TAGS
       \/ el.elementId \in {"user-note", "message-input"}
       \/ el.contentEditable = "true"

\* One level of shouldSkipNode's walk
levelSkips(el) ==
    /\ el.tagName # ""
    /\ \/ el.tagName \in IGNORE_TAGS
       \/ el.elementId \in {"user-note", "message-input"}
       \/ el.contentEditable = "true"
       \/ el.className = "bionic-text-wrapper"

\* The number of levels shouldSkipNode looks at (depth < 5)
SKIP_DEPTH == 5

\* shouldSkipNode(node), chain being node and its ancestors, nearest first
shouldSkipNode_NoTags(chain) ==
    \E i \in 1..Len(chain) :
        i <= SKIP_DEPTH /\ chain[i].className = "bionic-text-wrapper"

shouldSkipNode_Unbounded(chain) ==
    \E i \in 1..Len(chain) : levelSkips(chain[i])

shouldSkipNode(chain) ==
    \E i \in 1..Len(chain) : i <= SKIP_DEPTH /\ levelSkips(chain[i])

\* node.parentNode and its ancestors for an attached text node
ParentChain(n) ==
    LET up == SlotChain(n[1]) \o BlockChain
    IN  CASE n[2] = "unit" -> up
          [] n[2] = "bold" -> <<El("B"), WrapperSpan>> \o up
          [] n[2] = "rest" -> <<WrapperSpan>> \o up

\* ------------------------------------------------------------------------
\* The document's state and processTextNode
\* ------------------------------------------------------------------------

\* dom[s]: "absent" (not yet inserted), "text" (the unit is attached),
\*         "wrapped" (a wrapper stands in its place and the unit is
\*         detached), "removed" (the host took the node out)
\* text[s]: the nodeValue of the slot's unit
\* The text of the emphasized prefix of the first emphasized word
BoldText(html) ==
    LET i == CHOOSE k \in 1..Len(html) :
                 SubSeq(html, k, k + 2) = BOpen
                 /\ \A j \in 1..(k - 1) : SubSeq(html, j, j + 2) # BOpen
        j == CHOOSE k \in (i + 3)..Len(html) :
                 html[k] = "<" /\ \A m \in (i + 3)..(k - 1) : html[m] # "<"
    IN  Slice(html, i + 3, j - 1)

\* The text node after the first </b>
RestText(html) ==
    LET i == CHOOSE k \in 1..Len(html) :
                 SubSeq(html, k, k + 3) = BClose
                 /\ \A j \in 1..(k - 1) : SubSeq(html, j, j + 3) # BClose
    IN  textContent(Slice(html, i + 4, Len(html)))

\* node.nodeValue
NodeValue(st, n) ==
    CASE n[2] = "unit" -> st.text[n[1]]
      [] n[2] = "bold" -> BoldText(transformText(st.text[n[1]]))
      [] n[2] = "rest" -> RestText(transformText(st.text[n[1]]))

\* node.parentNode is not null
Attached_Always(st, n) == TRUE

Attached(st, n) ==
    IF n[2] = "unit" THEN st.dom[n[1]] = "text" ELSE st.dom[n[1]] = "wrapped"

\* processTextNode(node) on the document state st
processTextNode(st, n) ==
    IF ~Attached(st, n) \/ n \in st.processedNodes THEN st
    ELSE LET value == NodeValue(st, n)
         IN  IF Len(value) < 3 \/ ReWhitespace(value)
             THEN [st EXCEPT !.processedNodes = @ \cup {n}]
             ELSE IF shouldSkipNode(ParentChain(n)) THEN st
             ELSE LET bionicHtml == transformText(value)
                  IN  IF wrapsNode(value, bionicHtml)
                      THEN IF ~Attached(st, n) THEN st
                           ELSE IF n[2] = "unit"
                           THEN [st EXCEPT !.dom[n[1]] = "wrapped",
                                           !.xforms[n[1]] = @ + 1,
                                           !.processedNodes = @ \cup {Node(n[1], "span")}]
                           ELSE [st EXCEPT !.nested = TRUE]
                      ELSE [st EXCEPT !.processedNodes = @ \cup {n}]

\* for (i = 0; i < batch.length; i++) processTextNode(batch[i])
RECURSIVE processAll(_, _)
processAll(st, batch) ==
    IF batch = <<>> THEN st ELSE processAll(processTextNode(st, Head(batch)), Tail(batch))

\* catch (e) { logger.error(...) } in processTextNode: the call returns and
\* the loop of processBatch goes on with the rest of the batch
afterThrow_Abort(rest) == <<>>

afterThrow(rest) == rest

\* The same loop when the calls for the nodes in F raise an exception inside
\* the try block, before anything was replaced or recorded. A call that
\* returns before the try block (detached or processed node) raises nothing.
RECURSIVE processAllCatching(_, _, _)
processAllCatching(st, batch, F) ==
    IF batch = <<>> THEN st
    ELSE LET n == Head(batch)
         IN  IF n \in F /\ Attached(st, n) /\ n \notin st.processedNodes
             THEN processAllCatching([st EXCEPT !.threw = @ \cup {n}],
                                     afterThrow(Tail(batch)), F)
             ELSE processAllCatching(processTextNode(st, n), Tail(batch), F)

\* ------------------------------------------------------------------------
\* Scheduler
\* ------------------------------------------------------------------------

\* The operators below take and return the program state m they work on: the
\* document (dom, text, processedNodes, with the history xforms and nested)
\* and the queue (pending, with frame: the flag rafScheduled and the callbacks
\* outstanding).

\* pendingNodes.splice(0, CONFIG.MAX_BATCH_SIZE): the batch taken
spliceBatch_All(pending) == pending

spliceBatch(pending) ==
    IF Len(pending) <= MAX_BATCH_SIZE THEN pending ELSE SubSeq(pending, 1, MAX_BATCH_SIZE)

\* if (pendingNodes.length > 0) after the batch: another frame is requested
needsAnotherFrame_Always(rest) == TRUE

needsAnotherFrame_Never(rest) == FALSE

needsAnotherFrame(rest) == Len(rest) > 0

\* if (!isEnabled || pendingNodes.length === 0) at the head of processBatch
batchDiscards_IgnoreFlag(enabled, pending) == Len(pending) = 0

batchDiscards(enabled, pending) == ~enabled \/ Len(pending) = 0

\* queueNode(node) that transforms at once instead of queueing
queueNode_Sync(m, n) == processTextNode(m, n)

\* if (!rafScheduled) { rafScheduled = true; requestAnimationFrame(processBatch) }
\* f holds the flag rafScheduled and the number of callbacks outstanding
requestFrame_Skip(f) == f

requestFrame_Always(f) == [flag |-> TRUE, callbacks |-> f.callbacks + 1]

requestFrame(f) == IF f.flag THEN f ELSE [flag |-> TRUE, callbacks |-> f.callbacks + 1]

queueNode_Front(m, n) ==
    IF Len(m.pending) > QUEUE_LIMIT THEN m
    ELSE [m EXCEPT !.pending = <<n>> \o @, !.frame = requestFrame(@)]

\* queueNode(node)
queueNode(m, n) ==
    IF Len(m.pending) > QUEUE_LIMIT THEN m
    ELSE [m EXCEPT !.pending = Append(@, n), !.frame = requestFrame(@)]

RECURSIVE queueAll(_, _)
queueAll(m, ns) ==
    IF ns = <<>> THEN m ELSE queueAll(queueNode(m, Head(ns)), Tail(ns))

\* The text nodes the TreeWalker of processElement finds at a slot
SlotNodes(m, s) ==
    CASE m.dom[s] = "text" ->
             IF ReWhitespace(m.text[s]) THEN <<>> ELSE <<Node(s, "unit")>>
      [] m.dom[s] = "wrapped" -> <<Node(s, "bold"), Node(s, "rest")>>
      [] OTHER -> <<>>

RECURSIVE WalkSlots(_, _)
WalkSlots(m, ss) ==
    IF ss = <<>> THEN <<>> ELSE SlotNodes(m, Head(ss)) \o WalkSlots(m, Tail(ss))

\* processElement(block)
processElement(m, b) ==
    IF shouldSkipNode(BlockChain) THEN m ELSE queueAll(m, WalkSlots(m, SlotsOf(b)))

\* processElement(element) for the parent element of slot s
processSlotElement(m, s) ==
    IF shouldSkipNode(SlotChain(s) \o BlockChain) THEN m
    ELSE queueAll(m, SlotNodes(m, s))

\* blocks.forEach(block => processElement(block))
RECURSIVE processBlocks(_, _)
processBlocks(m, bs) ==
    IF bs = <<>> THEN m ELSE processBlocks(processElement(m, Head(bs)), Tail(bs))

\* document.querySelectorAll(RESPONSE_BLOCK), in document order
BlockList(present) ==
    (IF 1 \in present THEN <<1>> ELSE <<>>) \o (IF 2 \in present THEN <<2>> ELSE <<>>)

\* revertAllProcessing: every attached wrapper is replaced by a new text node
\* holding the wrapper's textContent
revertAllProcessing_InnerHTML(m) ==
    [m EXCEPT
        !.dom = [s \in Slots |-> IF m.dom[s] = "wrapped" THEN "text" ELSE m.dom[s]],
        !.text = [s \in Slots |->
                     IF m.dom[s] = "wrapped" THEN transformText(m.text[s]) ELSE m.text[s]],
        !.xforms = [s \in Slots |-> IF m.dom[s] = "wrapped" THEN 0 ELSE m.xforms[s]],
        !.processedNodes = { n \in @ : m.dom[n[1]] # "wrapped" }]

revertAllProcessing(m) ==
    [m EXCEPT
        !.dom = [s \in Slots |-> IF m.dom[s] = "wrapped" THEN "text" ELSE m.dom[s]],
        !.text = [s \in Slots |->
                     IF m.dom[s] = "wrapped"
                     THEN textContent(transformText(m.text[s])) ELSE m.text[s]],
        !.xforms = [s \in Slots |-> IF m.dom[s] = "wrapped" THEN 0 ELSE m.xforms[s]],
        !.processedNodes = { n \in @ : m.dom[n[1]] # "wrapped" }]

\* ------------------------------------------------------------------------
\* Streaming Stability Detector: the check's arithmetic. Times are in units
\* of 100 ms.
\* ------------------------------------------------------------------------

\* The debounce threshold, 1000 ms
STABILITY_DEBOUNCE == 10

\* The interval of the background check, 200 ms
CHECK_INTERVAL == 2

\* The units the host streams. Units 1 and 2 are the last text-bearing child
\* of their parents, unit 3 has a later sibling.
Units == {1, 2, 3}

isLastTextChild(u) == u \in {1, 2}

\* The ledger's value for a unit that is not tracked
NoStamp == -1

\* A timestamp that is stable as soon as it is one check old
isStable_OneCheck(time, stamp) == time - stamp >= CHECK_INTERVAL

\* "older than a debounce threshold"
isStable(time, stamp) == time - stamp > STABILITY_DEBOUNCE

\* A check that comes back only after another debounce threshold
nextCheckTime_Debounce(time) == time + STABILITY_DEBOUNCE

\* When the background check runs next
nextCheckTime(time) == time + CHECK_INTERVAL

\* "removed from tracking"
ledgerAfterCheck(l, stable) == [u \in Units |-> IF u \in stable THEN NoStamp ELSE l[u]]

\* ------------------------------------------------------------------------
\* State
\* ------------------------------------------------------------------------

VARIABLES
    tText,      \* the text transformer's input (a Text Unit's nodeValue)
    tHtml,      \* transformText(tText)
    tOut,       \* the text content once the unit was replaced, or kept
    tPhase      \* "off", "input", "transformed", "wrapped", "kept"

VARIABLES
    isEnabled,            \* the Enabled Flag
    storedState,          \* localStorage[STORAGE_KEY]: "null", "true", "false"
    timerPending,         \* init's setTimeout(..., 500) has not fired yet
    styleElement,         \* the injected style element exists
    pendingNodes,         \* the Pending Queue
    rafScheduled,         \* the script's flag of that name
    rafCallbacks,         \* the requestAnimationFrame(processBatch) callbacks
                          \* requested and not run yet
    observer,             \* the document-wide MutationObserver is connected
    intersectionObserver, \* the variable holds an IntersectionObserver
    ioObserved,           \* the blocks it observes
    ioOrphans,            \* blocks observed by IntersectionObservers the
                          \* variable no longer holds
    responseBlockCache,   \* blocks observeResponseBlock has seen
    blockObservers,       \* per block: the MutationObservers of
                          \* observeResponseBlock connected to it
    blockPresent,         \* the response blocks in the document
    dom,                  \* per slot: "absent", "text", "wrapped", "removed"
    text,                 \* per slot: the unit's nodeValue
    processedNodes        \* the WeakSet of processed nodes

\* History
VARIABLES
    original,   \* per slot: the text the host put there
    xforms,     \* per slot: how often the slot's current unit was replaced
    nested,     \* a wrapper was created inside a wrapper
    batch,      \* the batch of the processBatch call that ran last, if that
                \* call was the last step
    discarded,  \* the nodes that call threw away instead
    lenAtEnq,   \* the queue's length after the last enqueue, 0 once the queue
                \* was emptied other than by taking batches
    cbSinceEnq, \* processBatch calls that took a batch since that enqueue
    reported,   \* the blocks an IntersectionObserver ever reported intersecting
    scanned,    \* the last step ran processExistingContent
    toggleRun,      \* how many of the last steps were toggleExtension calls
                    \* in a row (counted up to two)
    flagBeforeLast, \* isEnabled before the last of them
    flagBeforeBoth, \* isEnabled before the one before it
    snapBeforeLast, \* the stored preference and the documents's text before
                    \* the last of them, and whether the script was at rest
    snapBeforeBoth, \* the same before the one before it
    threw           \* the nodes of that batch whose processTextNode call
                    \* raised an exception inside its try block

VARIABLES
    now,            \* the clock, in units of 100 ms
    ledger,         \* the Stability Ledger: per unit the last-mutation
                    \* timestamp, or NoStamp when the unit is not tracked
    checkRunning,   \* the background check's timer is armed
    nextCheck,      \* when that timer fires
    stableQueue,    \* the units the detector or the observation layer handed
                    \* to the Scheduler and the Scheduler has not taken yet
    phase,          \* per unit: "none", "streaming", "settled" or "taken"
    lastEvent       \* per unit: when the host last changed it, 0 once the
                    \* unit left the ledger

\* The debounced script of extension/bionic-reading.js (its second script)
VARIABLES
    debEnabled,     \* its isEnabled
    debStored,      \* localStorage[STORAGE_KEY] as it sees it
    debInitTimer,   \* init's setTimeout(runBionicProcessing, 1000) is pending
    debTimeout,     \* processingTimeout is pending
    debDom,         \* per response block: "absent", "text" (plain text only),
                    \* "wrapped" (wrappers only) or "mixed" (wrappers and
                    \* plain text the host added since)
    debMarked       \* the blocks with dataset.bionicProcessed = 'true'

\* getBoldLength under a configured ratio
VARIABLES
    rRatio,     \* BOLD_RATIO, in hundredths
    rLen,       \* the word's length
    rPrefix,    \* the bold length returned
    rPhase      \* "off", "input" or "done"

\* shouldSkipNode on one chain of ancestors
VARIABLES
    wChain,     \* node.parentNode and its ancestors, nearest first
    wSkip,      \* what shouldSkipNode returned
    wPhase      \* "off", "input" or "done"

\* The pending-blocks script of extension/bionic-reading.js (its first script)
VARIABLES
    obEnabled,      \* its isEnabled
    obInitTimer,    \* init's setTimeout(runBionicProcessing, 100) is pending
    obPending,      \* pendingBlocks
    obArmed,        \* processingTimeout is pending
    obWait,         \* the time since it was set, in ticks
    obRecords,      \* the blocks with mutation records the observer's callback
                    \* has not been called for yet
    obDom,          \* per response block: its state, the deepest nesting of
                    \* wrappers in it, whether it holds plain text the host
                    \* added after a wrapper, and dataset.bionicProcessed
    obRan,          \* the last step ran processPendingBlocks past its guard,
    obInCallback,   \* and ran it inside the observer's callback,
    obQuiet,        \* the ticks since the last observed mutation by then
    obPasses        \* the processPendingBlocks passes run so far, modulo 2

textVars == <<tText, tHtml, tOut, tPhase>>

debVars == <<debEnabled, debStored, debInitTimer, debTimeout, debDom, debMarked>>

ratioVars == <<rRatio, rLen, rPrefix, rPhase>>

walkVars == <<wChain, wSkip, wPhase>>

obVars == <<obEnabled, obInitTimer, obPending, obArmed, obWait, obRecords, obDom,
           obRan, obInCallback, obQuiet, obPasses>>

flagVars == <<isEnabled, storedState, timerPending, styleElement>>

queueVars == <<pendingNodes, rafScheduled, rafCallbacks>>

observerVars == <<observer, intersectionObserver, ioObserved, ioOrphans,
                  responseBlockCache, blockObservers>>

domVars == <<blockPresent, dom, text, processedNodes>>

histVars == <<original, xforms, nested, batch, discarded, lenAtEnq, cbSinceEnq,
             reported, scanned, toggleRun, flagBeforeLast, flagBeforeBoth,
             snapBeforeLast, snapBeforeBoth,
             threw>>

schedVars == <<flagVars, queueVars, observerVars, domVars, histVars>>

stabVars == <<now, ledger, checkRunning, nextCheck, stableQueue, phase, lastEvent>>

vars == <<textVars, schedVars, stabVars, debVars, ratioVars, walkVars, obVars>>

\* The text of every slot with the markup taken away: the unit's text, or
\* the textContent of the wrapper that stands in its place
StrippedOf(d, t) ==
    [s \in Slots |->
        CASE d[s] = "text" -> t[s]
          [] d[s] = "wrapped" -> textContent(transformText(t[s]))
          [] OTHER -> <<>>]

StrippedText == StrippedOf(dom, text)

\* Nothing of the script is waiting to run: no queued node, no frame
\* callback, no startup timer
Quiescent == pendingNodes = <<>> /\ rafCallbacks = 0 /\ ~timerPending

\* What a toggle pair is compared with: the stored preference, the document
\* and whether the script was at rest
Snapshot == [stored |-> storedState, quiet |-> Quiescent, dom |-> dom, text |-> text]

NoSnapshot == [stored |-> "null", quiet |-> FALSE,
               dom |-> [s \in Slots |-> "absent"], text |-> [s \in Slots |-> <<>>]]

\* The markup-stripped text of a snapshot
StrippedBefore(snap) == StrippedOf(snap.dom, snap.text)

\* The program state as the operators above take it
M == [dom |-> dom, text |-> text, processedNodes |-> processedNodes,
      xforms |-> xforms, nested |-> nested,
      pending |-> pendingNodes,
      frame |-> [flag |-> rafScheduled, callbacks |-> rafCallbacks],
      scan |-> FALSE,
      threw |-> {}]

\* The program state after a handler that does not take a batch
SetM(m) ==
    /\ dom' = m.dom
    /\ text' = m.text
    /\ processedNodes' = m.processedNodes
    /\ xforms' = m.xforms
    /\ nested' = m.nested
    /\ pendingNodes' = m.pending
    /\ rafScheduled' = m.frame.flag
    /\ rafCallbacks' = m.frame.callbacks
    /\ batch' = <<>>
    /\ discarded' = 0
    /\ scanned' = m.scan
    /\ threw' = {}
    /\ IF m.pending # pendingNodes
       THEN lenAtEnq' = Len(m.pending) /\ cbSinceEnq' = 0
       ELSE UNCHANGED <<lenAtEnq, cbSinceEnq>>

\* ------------------------------------------------------------------------
\* The text transformer applied to one Text Unit
\* ------------------------------------------------------------------------

DebBlocks == {1, 2, 3}

DebIdle ==
    /\ debEnabled = FALSE
    /\ debStored = "false"
    /\ debInitTimer = FALSE
    /\ debTimeout = FALSE
    /\ debDom = [b \in DebBlocks |-> "absent"]
    /\ debMarked = {}

RatioIdle ==
    /\ rRatio = BoldRatioNum
    /\ rLen = 0
    /\ rPrefix = 0
    /\ rPhase = "off"

ObsBlocks == {1, 2, 3}

AbsentBlock == [state |-> "absent", depth |-> 0, fresh |-> FALSE, marked |-> FALSE]

ObIdle ==
    /\ obEnabled = FALSE
    /\ obInitTimer = FALSE
    /\ obPending = {}
    /\ obArmed = FALSE
    /\ obWait = 0
    /\ obRecords = {}
    /\ obDom = [b \in ObsBlocks |-> AbsentBlock]
    /\ obRan = FALSE
    /\ obInCallback = FALSE
    /\ obQuiet = 0
    /\ obPasses = 0

WalkIdle ==
    /\ wChain = <<>>
    /\ wSkip = FALSE
    /\ wPhase = "off"

StabIdle ==
    /\ now = 0
    /\ ledger = [u \in Units |-> NoStamp]
    /\ checkRunning = FALSE
    /\ nextCheck = 0
    /\ stableQueue = {}
    /\ phase = [u \in Units |-> "none"]
    /\ lastEvent = [u \in Units |-> 0]

SchedIdle ==
    /\ isEnabled = FALSE
    /\ storedState = "false"
    /\ timerPending = FALSE
    /\ styleElement = FALSE
    /\ pendingNodes = <<>>
    /\ rafScheduled = FALSE
    /\ rafCallbacks = 0
    /\ observer = FALSE
    /\ intersectionObserver = FALSE
    /\ ioObserved = {}
    /\ ioOrphans = {}
    /\ responseBlockCache = {}
    /\ blockObservers = [b \in Blocks |-> 0]
    /\ blockPresent = {}
    /\ dom = [s \in Slots |-> "absent"]
    /\ text = [s \in Slots |-> <<>>]
    /\ processedNodes = {}
    /\ original = text
    /\ xforms = [s \in Slots |-> 0]
    /\ nested = FALSE
    /\ batch = <<>>
    /\ discarded = 0
    /\ lenAtEnq = 0
    /\ cbSinceEnq = 0
    /\ reported = {}
    /\ scanned = FALSE
    /\ toggleRun = 0
    /\ flagBeforeLast = FALSE
    /\ flagBeforeBoth = FALSE
    /\ snapBeforeLast = NoSnapshot
    /\ snapBeforeBoth = NoSnapshot
    /\ threw = {}

TextInit ==
    /\ tText \in TextInputs
    /\ tHtml = <<>>
    /\ tOut = <<>>
    /\ tPhase = "input"
    /\ SchedIdle
    /\ StabIdle
    /\ DebIdle
    /\ RatioIdle
    /\ WalkIdle
    /\ ObIdle

\* const bionicHtml = transformText(text)
TextTransform ==
    /\ tPhase = "input"
    /\ tHtml' = transformText(tText)
    /\ tPhase' = "transformed"
    /\ UNCHANGED <<tText, tOut, schedVars, stabVars, debVars, ratioVars, walkVars, obVars>>

\* span.innerHTML = bionicHtml; the wrapper's text content is what a later
\* revert reads back
TextWrap ==
    /\ tPhase = "transformed"
    /\ wrapsNode(tText, tHtml)
    /\ tOut' = textContent(tHtml)
    /\ tPhase' = "wrapped"
    /\ UNCHANGED <<tText, tHtml, schedVars, stabVars, debVars, ratioVars, walkVars, obVars>>

\* the node is left as it is
TextKeep ==
    /\ tPhase = "transformed"
    /\ ~wrapsNode(tText, tHtml)
    /\ tOut' = tText
    /\ tPhase' = "kept"
    /\ UNCHANGED <<tText, tHtml, schedVars, stabVars, debVars, ratioVars, walkVars, obVars>>

TextNext == TextTransform \/ TextWrap \/ TextKeep

SpecText == TextInit /\ [][TextNext]_vars

\* ------------------------------------------------------------------------
\* The queue pipeline
\* ------------------------------------------------------------------------

TextIdle ==
    /\ tText = <<>>
    /\ tHtml = <<>>
    /\ tOut = <<>>
    /\ tPhase = "off"

\* storedState === null ? CONFIG.ENABLED_BY_DEFAULT : storedState === 'true'
ENABLED_BY_DEFAULT == TRUE

readEnabled(stored) == IF stored = "null" THEN ENABLED_BY_DEFAULT ELSE stored = "true"

\* localStorage.setItem(CONFIG.STORAGE_KEY, isEnabled) stores String(isEnabled)
storeFlag(enabled) == IF enabled THEN "true" ELSE "false"

\* The state once the script ran and init() returned: the flag read from
\* localStorage, the styles injected and the startup timer armed when enabled.
Init ==
    /\ TextIdle
    /\ StabIdle
    /\ DebIdle
    /\ RatioIdle
    /\ WalkIdle
    /\ ObIdle
    /\ storedState \in {"null", "true", "false"}
    /\ isEnabled = readEnabled(storedState)
    /\ timerPending = isEnabled
    /\ styleElement = isEnabled
    /\ pendingNodes = <<>>
    /\ rafScheduled = FALSE
    /\ rafCallbacks = 0
    /\ observer = FALSE
    /\ intersectionObserver = FALSE
    /\ ioObserved = {}
    /\ ioOrphans = {}
    /\ responseBlockCache = {}
    /\ blockObservers = [b \in Blocks |-> 0]
    /\ blockPresent = InitialBlocks
    /\ dom = [s \in Slots |-> IF s \in InitialSlots /\ SlotBlock(s) \in InitialBlocks
                               THEN "text" ELSE "absent"]
    /\ text \in [Slots -> {<<>>} \cup UNION { SlotTexts(s) : s \in Slots }]
    /\ \A s \in Slots : IF s \in InitialSlots THEN text[s] \in SlotTexts(s)
                                              ELSE text[s] = <<>>
    /\ processedNodes = {}
    /\ original = text
    /\ xforms = [s \in Slots |-> 0]
    /\ nested = FALSE
    /\ batch = <<>>
    /\ discarded = 0
    /\ lenAtEnq = 0
    /\ cbSinceEnq = 0
    /\ reported = {}
    /\ scanned = FALSE
    /\ toggleRun = 0
    /\ flagBeforeLast = FALSE
    /\ flagBeforeBoth = FALSE
    /\ snapBeforeLast = NoSnapshot
    /\ snapBeforeBoth = NoSnapshot
    /\ threw = {}

\* setupGlobalObserver(): a new IntersectionObserver observing every block in
\* the document (the one the variable held, if any, keeps observing), and
\* the document-wide MutationObserver.
setupGlobalObserver ==
    /\ ioOrphans' = IF intersectionObserver THEN ioOrphans \cup ioObserved ELSE ioOrphans
    /\ intersectionObserver' = TRUE
    /\ ioObserved' = blockPresent
    /\ observer' = TRUE

\* observeResponseBlock(block): the cache and the connected observers after
\* the call
observeResponseBlock_NoCache(cache, watches, b) ==
    [cache |-> cache \cup {b}, watches |-> [watches EXCEPT ![b] = @ + 1]]

observeResponseBlock(cache, watches, b) ==
    IF b \in cache THEN [cache |-> cache, watches |-> watches]
    ELSE [cache |-> cache \cup {b}, watches |-> [watches EXCEPT ![b] = @ + 1]]

\* disconnectObservers(): the observer block._bionicObserver refers to is
\* disconnected for every block of the cache
disconnectObservers ==
    /\ observer' = FALSE
    /\ intersectionObserver' = FALSE
    /\ ioObserved' = {}
    /\ blockObservers' = [b \in Blocks |->
                              IF b \in responseBlockCache /\ blockObservers[b] > 0
                              THEN blockObservers[b] - 1 ELSE blockObservers[b]]
    /\ responseBlockCache' = {}
    /\ UNCHANGED ioOrphans

\* isEnabled = !isEnabled
flipFlag_On(enabled) == TRUE

flipFlag(enabled) == ~enabled

\* A step other than a toggleExtension call ends the run of calls
NotAToggle ==
    /\ toggleRun' = 0
    /\ flagBeforeLast' = FALSE
    /\ flagBeforeBoth' = FALSE
    /\ snapBeforeLast' = NoSnapshot
    /\ snapBeforeBoth' = NoSnapshot

\* toggleExtension()
toggleExtension ==
    /\ isEnabled' = flipFlag(isEnabled)
    /\ toggleRun' = IF toggleRun = 0 THEN 1 ELSE 2
    /\ flagBeforeLast' = isEnabled
    /\ flagBeforeBoth' = flagBeforeLast
    /\ snapBeforeLast' = Snapshot
    /\ snapBeforeBoth' = snapBeforeLast
    /\ storedState' = storeFlag(isEnabled')
    /\ IF isEnabled'
       THEN \* injectStyles(); setupGlobalObserver(); processExistingContent()
            /\ styleElement' = TRUE
            /\ setupGlobalObserver
            /\ SetM([processBlocks(M, BlockList(blockPresent)) EXCEPT !.scan = TRUE])
            /\ UNCHANGED <<responseBlockCache, blockObservers>>
       ELSE \* disconnectObservers(); revertAllProcessing(); pendingNodes = []
            /\ disconnectObservers
            /\ styleElement' = FALSE
            /\ SetM([revertAllProcessing(M) EXCEPT !.pending = <<>>])
    /\ UNCHANGED <<timerPending, blockPresent, original, reported, textVars, stabVars, debVars, ratioVars, walkVars, obVars>>

\* init's timer: setupGlobalObserver(); processExistingContent()
StartupTimer ==
    /\ timerPending
    /\ timerPending' = FALSE
    /\ setupGlobalObserver
    /\ SetM([processBlocks(M, BlockList(blockPresent)) EXCEPT !.scan = TRUE])
    /\ NotAToggle
    /\ UNCHANGED <<isEnabled, storedState, styleElement, responseBlockCache,
                   blockObservers, blockPresent, original, reported, textVars, stabVars, debVars, ratioVars, walkVars, obVars>>

\* processBatch(), the requestAnimationFrame callback
processBatchWith(F) ==
    /\ rafCallbacks > 0
    /\ IF batchDiscards(isEnabled, pendingNodes)
       THEN /\ F = {}
            /\ pendingNodes' = <<>>
            /\ rafScheduled' = FALSE
            /\ rafCallbacks' = rafCallbacks - 1
            /\ batch' = <<>>
            /\ discarded' = Len(pendingNodes)
            /\ lenAtEnq' = 0
            /\ cbSinceEnq' = 0
            /\ threw' = {}
            /\ UNCHANGED <<dom, text, processedNodes, xforms, nested>>
       ELSE LET b == spliceBatch(pendingNodes)
                rest == Slice(pendingNodes, Len(b) + 1, Len(pendingNodes))
                m == processAllCatching(
                         [M EXCEPT !.pending = rest,
                                   !.frame = [flag |-> FALSE, callbacks |-> @.callbacks - 1]],
                         b, F)
            IN  /\ (F = {} \/ m.threw # {})
                /\ batch' = b
                /\ threw' = m.threw
                /\ discarded' = 0
                /\ dom' = m.dom
                /\ text' = m.text
                /\ processedNodes' = m.processedNodes
                /\ xforms' = m.xforms
                /\ nested' = m.nested
                /\ pendingNodes' = m.pending
                /\ rafScheduled' = (m.frame.flag \/ needsAnotherFrame(pendingNodes'))
                /\ rafCallbacks' = m.frame.callbacks
                                    + IF needsAnotherFrame(pendingNodes') THEN 1 ELSE 0
                /\ cbSinceEnq' = cbSinceEnq + 1
                /\ UNCHANGED lenAtEnq
    /\ scanned' = FALSE
    /\ NotAToggle
    /\ UNCHANGED <<flagVars, observerVars, blockPresent, original, reported, textVars,
                   stabVars, debVars, ratioVars, walkVars, obVars>>

\* processBatch() when no call raises an exception
processBatch == processBatchWith({})

\* The units whose processing may raise an exception
ThrowSlots == {1}

\* processBatch() when the call for one node of the batch does
processBatchThrows ==
    \E s \in ThrowSlots : processBatchWith({Node(s, "unit")})

\* The IntersectionObserver callback for a block reported intersecting:
\* observeResponseBlock(entry.target); processElement(entry.target)
IntersectionNotify(b) ==
    /\ b \in ioObserved \cup ioOrphans
    /\ b \in blockPresent
    /\ isEnabled
    /\ LET o == observeResponseBlock(responseBlockCache, blockObservers, b)
       IN  responseBlockCache' = o.cache /\ blockObservers' = o.watches
    /\ reported' = reported \cup {b}
    /\ SetM(processElement(M, b))
    /\ NotAToggle
    /\ UNCHANGED <<flagVars, observer, intersectionObserver, ioObserved, ioOrphans,
                   blockPresent, original, textVars, stabVars, debVars, ratioVars, walkVars, obVars>>

\* The host adds a response block; the document-wide observer's callback
\* hands it to the IntersectionObserver.
HostAddBlock(b) ==
    /\ b \notin blockPresent
    /\ blockPresent' = blockPresent \cup {b}
    /\ SetM([M EXCEPT !.dom = [s \in Slots |->
                IF SlotBlock(s) = b /\ s \in InitialSlots THEN "text" ELSE dom[s]]])
    /\ ioObserved' = IF observer /\ isEnabled /\ intersectionObserver
                     THEN ioObserved \cup {b} ELSE ioObserved
    /\ NotAToggle
    /\ UNCHANGED <<flagVars, observer, intersectionObserver, ioOrphans,
                   responseBlockCache, blockObservers, original, reported, textVars, stabVars, debVars, ratioVars, walkVars, obVars>>

\* The host inserts a text node at a slot; the block's observer, when
\* connected, queues it.
HostInsertText(s) ==
    /\ SlotBlock(s) \in blockPresent
    /\ dom[s] = "absent"
    /\ \E t \in SlotTexts(s) :
          LET m == [M EXCEPT !.dom[s] = "text", !.text[s] = t]
          IN  /\ original' = [original EXCEPT ![s] = t]
              /\ IF blockObservers[SlotBlock(s)] > 0 /\ isEnabled
                 THEN SetM(queueNode(m, Node(s, "unit")))
                 ELSE SetM(m)
    /\ NotAToggle
    /\ UNCHANGED <<flagVars, observerVars, blockPresent, reported, textVars, stabVars, debVars, ratioVars, walkVars, obVars>>

\* The host inserts the slot's parent element with the text node in it; the
\* block's observer, when connected, calls processElement on the element.
HostInsertElement(s) ==
    /\ SlotBlock(s) \in blockPresent
    /\ dom[s] = "absent"
    /\ \E t \in SlotTexts(s) :
          LET m == [M EXCEPT !.dom[s] = "text", !.text[s] = t]
          IN  /\ original' = [original EXCEPT ![s] = t]
              /\ IF blockObservers[SlotBlock(s)] > 0 /\ isEnabled
                 THEN SetM(processSlotElement(m, s))
                 ELSE SetM(m)
    /\ NotAToggle
    /\ UNCHANGED <<flagVars, observerVars, blockPresent, reported, textVars, stabVars, debVars, ratioVars, walkVars, obVars>>

\* The host takes a slot's node (the unit, or the wrapper that replaced it)
\* out of its parent.
HostRemove(s) ==
    /\ s \in RemovableSlots
    /\ dom[s] \in {"text", "wrapped"}
    /\ SetM([M EXCEPT !.dom[s] = "removed"])
    /\ NotAToggle
    /\ UNCHANGED <<flagVars, observerVars, blockPresent, original, reported, textVars, stabVars, debVars, ratioVars, walkVars, obVars>>

Next ==
    \/ toggleExtension
    \/ StartupTimer
    \/ processBatch
    \/ \E b \in Blocks : IntersectionNotify(b)
    \/ \E b \in Blocks : HostAddBlock(b)
    \/ \E s \in Slots : HostInsertText(s)
    \/ \E s \in Slots : HostInsertElement(s)
    \/ \E s \in Slots : HostRemove(s)

Spec == Init /\ [][Next]_vars

\* A step that runs the requested animation frame callback: processBatch is
\* the only handler that clears rafScheduled or leaves a batch behind.
FrameRuns ==
    /\ rafCallbacks > 0
    /\ \E b \in {<<>>, spliceBatch(pendingNodes)} :
          /\ batch' = b
          /\ rafScheduled' \in BOOLEAN
          /\ b # <<>> \/ ~rafScheduled'

\* The browser runs a requested animation frame callback.
FairSpec == Spec /\ WF_<<batch, rafScheduled>>(FrameRuns)

\* ------------------------------------------------------------------------
\* The Streaming Stability Detector (spec 4.5, 4.7, 5)
\* ------------------------------------------------------------------------

\* The host inserts unit u; unit 1 is what the host streams first. A unit that is the last text-bearing child of its
\* parent is possibly streaming and enters the ledger, which arms the
\* background check when it is not armed; any other unit goes to the
\* Scheduler at once.
StabInsert(u) ==
    /\ phase[u] = "none"
    /\ now < MaxTime
    /\ u = 1 => now = 0
    /\ IF isLastTextChild(u)
       THEN /\ phase' = [phase EXCEPT ![u] = "streaming"]
            /\ ledger' = [ledger EXCEPT ![u] = now]
            /\ IF checkRunning
               THEN UNCHANGED <<checkRunning, nextCheck>>
               ELSE checkRunning' = TRUE /\ nextCheck' = nextCheckTime(now)
            /\ UNCHANGED stableQueue
            /\ lastEvent' = [lastEvent EXCEPT ![u] = now]
       ELSE /\ phase' = [phase EXCEPT ![u] = "settled"]
            /\ stableQueue' = stableQueue \cup {u}
            /\ UNCHANGED <<ledger, checkRunning, nextCheck, lastEvent>>
    /\ UNCHANGED <<now, textVars, schedVars, debVars, ratioVars, walkVars, obVars>>

\* The host changes the text of the streaming unit u: the unit's timestamp is
\* updated, and the unit is not queued.
StabMutate(u) ==
    /\ phase[u] = "streaming"
    /\ lastEvent[u] < now
    /\ lastEvent' = [lastEvent EXCEPT ![u] = now]
    /\ ledger' = [ledger EXCEPT ![u] = now]
    /\ IF checkRunning
       THEN UNCHANGED <<checkRunning, nextCheck>>
       ELSE checkRunning' = TRUE /\ nextCheck' = nextCheckTime(now)
    /\ UNCHANGED <<now, stableQueue, phase, textVars, schedVars, debVars, ratioVars, walkVars, obVars>>

\* The host's stream into unit u ends: no further event on u.
StabStreamEnds(u) ==
    /\ phase[u] = "streaming"
    /\ phase' = [phase EXCEPT ![u] = "settled"]
    /\ UNCHANGED <<now, ledger, checkRunning, nextCheck, stableQueue, lastEvent,
                   textVars, schedVars, debVars, ratioVars, walkVars, obVars>>

\* The background check: every tracked unit whose timestamp is older than the
\* debounce threshold leaves the ledger and goes to the Scheduler; the check
\* stops itself when no unit is tracked any more.
StabCheck ==
    /\ checkRunning
    /\ now = nextCheck
    /\ LET stable == { u \in Units : ledger[u] # NoStamp /\ isStable(now, ledger[u]) }
           kept == ledgerAfterCheck(ledger, stable)
       IN  /\ ledger' = kept
           /\ stableQueue' = stableQueue \cup stable
           /\ lastEvent' = [u \in Units |-> IF kept[u] = NoStamp THEN 0 ELSE lastEvent[u]]
           /\ IF \A u \in Units : kept[u] = NoStamp
              THEN checkRunning' = FALSE /\ nextCheck' = 0
              ELSE nextCheck' = nextCheckTime(now) /\ UNCHANGED checkRunning
    /\ UNCHANGED <<now, phase, textVars, schedVars, debVars, ratioVars, walkVars, obVars>>

\* The Scheduler takes unit u from the queue.
StabTake(u) ==
    /\ u \in stableQueue
    /\ stableQueue' = stableQueue \ {u}
    /\ phase' = [phase EXCEPT ![u] = "taken"]
    /\ UNCHANGED <<now, ledger, checkRunning, nextCheck, lastEvent, textVars, schedVars, debVars, ratioVars, walkVars, obVars>>

\* 100 ms pass. An armed timer fires on time, and a streaming unit is changed
\* again before the debounce threshold has passed since its last change.
StabTick ==
    /\ now < MaxTime
    /\ checkRunning => now < nextCheck
    /\ \A u \in Units : phase[u] = "streaming" => (now + 1) - lastEvent[u] < STABILITY_DEBOUNCE
    /\ now' = now + 1
    /\ UNCHANGED <<ledger, checkRunning, nextCheck, stableQueue, phase, lastEvent,
                   textVars, schedVars, debVars, ratioVars, walkVars, obVars>>

StabInit ==
    /\ TextIdle
    /\ SchedIdle
    /\ StabIdle
    /\ DebIdle
    /\ RatioIdle
    /\ WalkIdle
    /\ ObIdle

StabNext ==
    \/ \E u \in Units : StabInsert(u)
    \/ \E u \in Units : StabMutate(u)
    \/ \E u \in Units : StabStreamEnds(u)
    \/ StabCheck
    \/ \E u \in Units : StabTake(u)
    \/ StabTick

SpecStab == StabInit /\ [][StabNext]_vars

\* ------------------------------------------------------------------------
\* Properties of the text transformer (SpecText)
\* ------------------------------------------------------------------------

\* C1: round trip. Once a Text Unit was replaced by its Markup Container, the
\* container's text content (the markup removed) is exactly the unit's text,
\* whatever characters the text holds ('<', '>' and '&' included).
RoundTrip == tPhase = "wrapped" => tOut = tText

\* ------------------------------------------------------------------------
\* Properties of the queue pipeline (Spec)
\* ------------------------------------------------------------------------

InBatch(n) == \E i \in 1..Len(batch) : batch[i] = n

InQueue(n) == \E i \in 1..Len(pendingNodes) : pendingNodes[i] = n

\* A step replaces the unit of slot s by a wrapper
Wraps(s) == dom[s] # "wrapped" /\ dom'[s] = "wrapped"

\* C2: toggle-off reversion. While the feature is off after a toggle-off, no
\* Markup Container is in the document and every text node that stands where
\* a unit was put holds the text the host put there.
ToggleOffRestores ==
    ~isEnabled =>
        \A s \in Slots : /\ dom[s] # "wrapped"
                         /\ dom[s] = "text" => text[s] = original[s]

\* C3: from a toggle-off until the next toggle-on no unit is replaced, also
\* not by a callback that was scheduled before the toggle-off: a step taken
\* with the feature off replaces nothing.
NoWrapWhileDisabled == [][~isEnabled => \A s \in Slots : ~Wraps(s)]_vars

\* C3, the case: with the feature off, a scheduled callback ran on a non-empty
\* queue and threw the queued nodes away.
DisabledCallbackRan == ~isEnabled /\ discarded > 0

\* C4: however often a unit is queued and whatever the batches are, a unit is
\* replaced at most once and no Markup Container is created inside another.
AtMostOnceNoNesting == (\A s \in Slots : xforms[s] <= 1) /\ ~nested

\* C4, the case: a unit was queued twice, one batch held both entries and
\* the unit was replaced once.
QueuedTwiceWrappedOnce ==
    \E s \in Slots : /\ dom[s] = "wrapped"
                     /\ xforms[s] = 1
                     /\ \E i, j \in 1..Len(batch) :
                           i < j /\ batch[i] = Node(s, "unit") /\ batch[j] = Node(s, "unit")

\* One element of a Protected Zone: a code, preformatted, form, script or
\* style element, the user's note or message input, an editable region
ProtectedZone(el) ==
    \/ el.tagName \in IGNORE_TAGS
    \/ el.elementId \in {"user-note", "message-input"}
    \/ el.contentEditable = "true"

\* The ancestors of the unit of slot s, its parent first
Ancestors(s) == SlotChain(s) \o BlockChain

ProtectedWithin(s, depth) ==
    \E i \in 1..Len(Ancestors(s)) : i <= depth /\ ProtectedZone(Ancestors(s)[i])

Tracked(u) == ledger[u] # NoStamp

CeilDiv(n, d) == (n + d - 1) \div d

\* C8: after n units were queued and while nothing else is queued and the
\* feature stays on, the k-th callback leaves max(0, n - k * MAX_BATCH_SIZE)
\* units, the queue is empty after exactly ceil(n / MAX_BATCH_SIZE) callbacks,
\* and no callback is scheduled once the queue is empty.
DrainsInCeilBatches ==
    lenAtEnq > 0 =>
        /\ cbSinceEnq * MAX_BATCH_SIZE < lenAtEnq
               => /\ Len(pendingNodes) = lenAtEnq - cbSinceEnq * MAX_BATCH_SIZE
                  /\ rafScheduled
        /\ cbSinceEnq * MAX_BATCH_SIZE >= lenAtEnq
               => /\ pendingNodes = <<>>
                  /\ ~rafScheduled
                  /\ cbSinceEnq = CeilDiv(lenAtEnq, MAX_BATCH_SIZE)

\* C8, the case: a queue longer than one batch was emptied by two or more
\* callbacks, the last batch being a partial one.
DrainedInSeveralBatches ==
    /\ lenAtEnq > MAX_BATCH_SIZE
    /\ cbSinceEnq = CeilDiv(lenAtEnq, MAX_BATCH_SIZE)
    /\ pendingNodes = <<>>
    /\ batch # <<>>
    /\ Len(batch) < MAX_BATCH_SIZE

\* C9: a unit is not replaced in the step that queues it. A step that
\* replaces a unit is a callback that was scheduled before the step, and the
\* unit was in the queue before the step.
WrapOnlyFromQueue ==
    [][\A s \in Slots :
          Wraps(s) => rafScheduled /\ InQueue(Node(s, "unit"))
                                   /\ batch' # <<>>]_vars

\* C9, the case: an eligible unit was queued, a callback is scheduled and the
\* unit is still plain text.
QueuedNotYetWrapped ==
    \E s \in Slots : /\ InQueue(Node(s, "unit"))
                     /\ dom[s] = "text"
                     /\ rafScheduled
                     /\ isEnabled
                     /\ batch = <<>>
                     /\ ~shouldSkipNode(ParentChain(Node(s, "unit")))
                     /\ wrapsNode(text[s], transformText(text[s]))

\* C10: one callback takes at most MAX_BATCH_SIZE units.
BatchBounded == Len(batch) <= MAX_BATCH_SIZE

\* C10, the case: a callback took a full batch and left units in the queue.
FullBatchLeftRest == Len(batch) = MAX_BATCH_SIZE /\ pendingNodes # <<>>

\* ------------------------------------------------------------------------
\* Properties of the queue's capacity (Spec)
\* ------------------------------------------------------------------------

\* C11: queue bound. In every reachable state the Pending Queue holds at most
\* as many units as the cap says (1000 in the source, QUEUE_LIMIT here).
QueueWithinCap == Len(pendingNodes) <= QUEUE_LIMIT

\* The block observer of the slot's block reports the text node the host
\* inserts at slot s in this step
ReportsInsertedText(s) ==
    /\ dom[s] = "absent"
    /\ dom'[s] = "text"
    /\ isEnabled
    /\ blockObservers[SlotBlock(s)] > 0

\* C12: overflow policy. A newly discovered unit is kept: after the step in
\* which the block observer reports an inserted text node, that node is the
\* last entry of the Pending Queue (older entries making room for it).
NewestUnitKept ==
    [][\A s \in Slots :
          ReportsInsertedText(s) =>
              /\ pendingNodes' # <<>>
              /\ pendingNodes'[Len(pendingNodes')] = Node(s, "unit")]_vars

\* ------------------------------------------------------------------------
\* Properties of the observation layer (Spec)
\* ------------------------------------------------------------------------

\* C13: lazy processing. The units of a response block that was never
\* reported visible are neither in the Pending Queue nor replaced, whether
\* the scan came from a toggle-on or from the startup.
UnseenBlockUntouched ==
    \A s \in Slots :
        SlotBlock(s) \notin reported =>
            /\ ~InQueue(Node(s, "unit"))
            /\ dom[s] # "wrapped"

\* C14: observer cleanup. With the feature off no observer is connected: not
\* the document-wide MutationObserver, not an IntersectionObserver (the
\* current one or one that setupGlobalObserver left behind), not a block's
\* MutationObserver.
NoObserverWhileDisabled ==
    ~isEnabled =>
        /\ ~observer
        /\ ~intersectionObserver
        /\ ioObserved = {}
        /\ ioOrphans = {}
        /\ blockObservers = [b \in Blocks |-> 0]

\* C15: the queue stays cleared while disabled. In every state with the
\* Enabled Flag false the Pending Queue is empty.
QueueEmptyWhileDisabled == ~isEnabled => pendingNodes = <<>>

\* ------------------------------------------------------------------------
\* Properties of the initial scan (FairSpec)
\* ------------------------------------------------------------------------

\* The unit at slot s is in the document and processTextNode would replace it
Eligible(s) ==
    /\ dom[s] = "text"
    /\ SlotBlock(s) \in blockPresent
    /\ Node(s, "unit") \notin processedNodes
    /\ Len(text[s]) >= 3
    /\ ~shouldSkipNode(ParentChain(Node(s, "unit")))
    /\ wrapsNode(text[s], transformText(text[s]))

\* The unit at slot s has been replaced, or the feature was turned off, or
\* the host took the unit out of the document
ReplacedOrGivenUp(s) == dom[s] = "wrapped" \/ ~isEnabled \/ dom[s] = "removed"

debReadEnabled(stored) == stored = "true"

\* processBlock(block): every plain text node is wrapped, the block is marked
processBlock(d) == IF d \in {"text", "mixed"} THEN "wrapped" ELSE d

\* revertBlock(block): every wrapper becomes a text node again
revertBlock(d) == IF d \in {"wrapped", "mixed"} THEN "text" ELSE d

\* runBionicProcessing(): nothing when disabled; otherwise processBlock for
\* the blocks in the document that are not marked. isProcessing is false
\* again when it returns.
runBionicProcessing(enabled, d, marked) ==
    IF ~enabled
    THEN [dom |-> d, marked |-> marked]
    ELSE [dom |-> [b \in DebBlocks |-> IF d[b] # "absent" /\ b \notin marked
                                       THEN processBlock(d[b]) ELSE d[b]],
          marked |-> marked \cup {b \in DebBlocks : d[b] # "absent"}]

\* revertAllProcessing() of this script
debRevertAllProcessing(d, marked) ==
    [dom |-> [b \in DebBlocks |-> revertBlock(d[b])],
     marked |-> marked \ {b \in DebBlocks : d[b] # "absent"}]

\* The MutationObserver callback for the mutations of the step: when enabled
\* and something was added, the debounce timer is restarted.
debObserved(enabled, changed, timeout) == IF enabled /\ changed THEN TRUE ELSE timeout

DebInit ==
    /\ TextIdle
    /\ SchedIdle
    /\ StabIdle
    /\ RatioIdle
    /\ WalkIdle
    /\ ObIdle
    /\ debStored \in {"null", "true", "false"}
    /\ debEnabled = debReadEnabled(debStored)
    /\ debInitTimer = debEnabled
    /\ debTimeout = FALSE
    /\ debDom \in [DebBlocks -> {"absent", "text"}]
    /\ debMarked = {}

debOthers == <<textVars, schedVars, stabVars, ratioVars, walkVars, obVars>>

\* toggleExtension() of this script
debToggleExtension ==
    /\ debEnabled' = ~debEnabled
    /\ debStored' = storeFlag(debEnabled')
    /\ LET r == IF debEnabled' THEN runBionicProcessing(TRUE, debDom, debMarked)
                               ELSE debRevertAllProcessing(debDom, debMarked)
       IN  /\ debDom' = r.dom
           /\ debMarked' = r.marked
           /\ debTimeout' = debObserved(debEnabled', r.dom # debDom, debTimeout)
    /\ UNCHANGED <<debInitTimer, debOthers>>

\* setTimeout(runBionicProcessing, 1000) of init fires
debInitTimerFires ==
    /\ debInitTimer
    /\ debInitTimer' = FALSE
    /\ LET r == runBionicProcessing(debEnabled, debDom, debMarked)
       IN  /\ debDom' = r.dom
           /\ debMarked' = r.marked
           /\ debTimeout' = debObserved(debEnabled, r.dom # debDom, debTimeout)
    /\ UNCHANGED <<debEnabled, debStored, debOthers>>

\* processingTimeout fires
debTimeoutFires ==
    /\ debTimeout
    /\ LET r == runBionicProcessing(debEnabled, debDom, debMarked)
       IN  /\ debDom' = r.dom
           /\ debMarked' = r.marked
           /\ debTimeout' = debObserved(debEnabled, r.dom # debDom, FALSE)
    /\ UNCHANGED <<debEnabled, debStored, debInitTimer, debOthers>>

\* The host adds a response block
debHostAddBlock ==
    \E b \in DebBlocks :
        /\ debDom[b] = "absent"
        /\ debDom' = [debDom EXCEPT ![b] = "text"]
        /\ debTimeout' = debObserved(debEnabled, TRUE, debTimeout)
        /\ UNCHANGED <<debEnabled, debStored, debInitTimer, debMarked, debOthers>>

\* The host appends text to a response block
debHostAppendText ==
    \E b \in DebBlocks :
        /\ debDom[b] # "absent"
        /\ debDom' = [debDom EXCEPT ![b] = IF @ = "wrapped" THEN "mixed" ELSE @]
        /\ debTimeout' = debObserved(debEnabled, TRUE, debTimeout)
        /\ UNCHANGED <<debEnabled, debStored, debInitTimer, debMarked, debOthers>>

DebNext ==
    \/ debToggleExtension
    \/ debInitTimerFires
    \/ debTimeoutFires
    \/ debHostAddBlock
    \/ debHostAppendText

SpecDeb == DebInit /\ [][DebNext]_vars

\* ------------------------------------------------------------------------
\* The persisted preference
\* ------------------------------------------------------------------------

\* C17: the stored value and the Enabled Flag agree: stored 'true' goes with
\* an enabled script, stored 'false' with a disabled one, and with no stored
\* value the script is enabled.
StoredPreferenceReadBack ==
    /\ debStored = "true" => debEnabled
    /\ debStored = "false" => ~debEnabled
    /\ debStored = "null" => debEnabled

\* C18 as stated: toggle() is idempotent, the Enabled Flag after two calls in
\* a row is the flag after the first of them.
ToggleTwiceLikeOnce == toggleRun = 2 => isEnabled = flagBeforeLast

\* C18: two toggle() calls in a row leave the Enabled Flag as it was before
\* them and the stored preference equal to it; one call leaves the negated
\* flag, stored.
ToggleTwiceRestoresFlag ==
    /\ toggleRun = 2 => isEnabled = flagBeforeBoth /\ storedState = storeFlag(flagBeforeBoth)
    /\ toggleRun = 1 => isEnabled = ~flagBeforeLast /\ storedState = storeFlag(~flagBeforeLast)

\* C18, the case: the feature was off, was toggled on and off again at once
ToggledTwiceFromDisabled == toggleRun = 2 /\ ~flagBeforeBoth /\ ~isEnabled /\ storedState = "false"

\* ------------------------------------------------------------------------
\* The emphasis length
\* ------------------------------------------------------------------------

\* A word that is all core: letters and digits, not a number, two or more
\* characters
IsCoreWord(w) == Len(w) >= 2 /\ AllIn(w, Lower \cup Digit) /\ ~AllIn(w, Digit)

\* round(L x 0.43): the p with p - 1/2 <= L x 0.43 < p + 1/2
RoundedShare(L) ==
    CHOOSE p \in 0..L :
        /\ 2 * BoldRatioDen * p - BoldRatioDen <= 2 * BoldRatioNum * L
        /\ 2 * BoldRatioNum * L < 2 * BoldRatioDen * p + BoldRatioDen

PrefixLength(L) == IF L <= 3 THEN 1 ELSE RoundedShare(L)

\* The prefix in the emphasis marker, then the remainder
Emphasized(w) ==
    BOpen \o Slice(w, 1, PrefixLength(Len(w))) \o BClose
          \o Slice(w, PrefixLength(Len(w)) + 1, Len(w))

\* C19: a core word of length L is emitted as its first 1 (L <= 3) or
\* round(L x 0.43) (L > 3) characters in the emphasis marker followed by the
\* untouched remainder; checked for a text that is one core word and for a
\* text of two core words around one space.
EmphasisLength ==
    tPhase \in {"transformed", "wrapped", "kept"} =>
        /\ IsCoreWord(tText) /\ Len(tText) >= 3 => tHtml = Emphasized(tText)
        /\ \A i \in 1..Len(tText) :
              LET l == Slice(tText, 1, i - 1)
                  r == Slice(tText, i + 1, Len(tText))
              IN  tText[i] = " " /\ IsCoreWord(l) /\ IsCoreWord(r) =>
                      tHtml = Emphasized(l) \o <<" ">> \o Emphasized(r)

\* C19, the case: "reading" came out as <b>rea</b>ding
ReadingEmphasized ==
    /\ tPhase = "wrapped"
    /\ tText = <<"r","e","a","d","i","n","g">>
    /\ tHtml = BOpen \o <<"r","e","a">> \o BClose \o <<"d","i","n","g">>

\* ------------------------------------------------------------------------
\* getBoldLength under every configurable ratio
\* ------------------------------------------------------------------------

\* USER_SETTINGS.BOLD_RATIO set to a value strictly between 0 and 1, in
\* hundredths, and a word of two or more characters
RatioInit ==
    /\ TextIdle
    /\ SchedIdle
    /\ StabIdle
    /\ DebIdle
    /\ WalkIdle
    /\ ObIdle
    /\ rRatio \in 1..(BoldRatioDen - 1)
    /\ rLen \in 2..MaxLen
    /\ rPrefix = 0
    /\ rPhase = "input"

\* const boldLen = getBoldLength(core.length)
RatioApply ==
    /\ rPhase = "input"
    /\ rPrefix' = getBoldLengthAt(rLen, rRatio, BoldRatioDen)
    /\ rPhase' = "done"
    /\ UNCHANGED <<rRatio, rLen, textVars, schedVars, stabVars, debVars, walkVars, obVars>>

SpecRatio == RatioInit /\ [][RatioApply]_vars

\* C20: for every ratio strictly between 0 and 1 and every word length above
\* 1 the emphasized prefix is at least 1 long and shorter than the word.
PrefixWithinWord == rPhase = "done" => 1 <= rPrefix /\ rPrefix < rLen

\* ------------------------------------------------------------------------
\* Short words, excluded tokens, hyphens
\* ------------------------------------------------------------------------

\* C21: a single-character word is emitted fully marked (prefix length 1);
\* checked for a text of a core word, one space and a one-letter word.
SingleCharacterMarked ==
    tPhase \in {"transformed", "wrapped", "kept"} =>
        \A i \in 1..Len(tText) :
            LET l == Slice(tText, 1, i - 1)
                r == Slice(tText, i + 1, Len(tText))
            IN  tText[i] = " " /\ IsCoreWord(l) /\ Len(r) = 1 /\ AllIn(r, Lower) =>
                    tHtml = Emphasized(l) \o <<" ">> \o BOpen \o r \o BClose

\* C22: each of the spec's excluded tokens (URL, number with separators and
\* percent, version, UUID-like identifier, filename, time, date) comes out of
\* transformText exactly as it went in, alone in the unit and between two
\* words that are emphasized.
ExcludedPassThrough ==
    tPhase \in {"transformed", "wrapped", "kept"} =>
        \A t \in ExcludedTokens :
            /\ tText = t => tHtml = t
            /\ tText = <<"a","a"," ">> \o t \o <<" ","a","a">> =>
                   tHtml = Emphasized(<<"a","a">>) \o <<" ">> \o t \o <<" ">>
                               \o Emphasized(<<"a","a">>)

\* C22, the case: the UUID-like example between two words, the words
\* emphasized and the unit replaced
ExcludedTokenInWrappedUnit ==
    /\ tPhase = "wrapped"
    /\ tText = <<"a","a"," ">> \o <<"a","1","b","2","c","3","d","4","-","e","5","f","6","-",".",".",".">>
                   \o <<" ","a","a">>

\* C23: a token of 2 or more characters that begins with http://, https://,
\* www., mailto:, tel: or ftp: comes out of transformText unmodified, whatever
\* its length; checked for a unit that is one such token.
UrlPrefixPassThrough ==
    tPhase \in {"transformed", "wrapped", "kept"} =>
        (Len(tText) >= 2 /\ ~(\E i \in 1..Len(tText) : tText[i] \in Space) /\ ReUrl(tText)
            => tHtml = tText)

\* A hyphen-delimited part under the hyphen rule: a purely numeric part as it
\* is, any other part emphasized by the prefix-length rule
HyphenPart(p) == IF AllIn(p, Digit) THEN p ELSE Emphasized(p)

\* C24: a core of two parts joined by a hyphen is emitted as the two parts,
\* each emphasized on its own by the prefix-length rule unless it is purely
\* numeric, joined by the hyphen again.
HyphenRule ==
    tPhase \in {"transformed", "wrapped", "kept"} =>
        \A i \in 1..Len(tText) :
            LET l == Slice(tText, 1, i - 1)
                r == Slice(tText, i + 1, Len(tText))
            IN  /\ tText[i] = "-"
                /\ Len(l) >= 1 /\ AllIn(l, Lower \cup Digit)
                /\ Len(r) >= 1 /\ AllIn(r, Lower \cup Digit)
                => tHtml = HyphenPart(l) \o <<"-">> \o HyphenPart(r)

\* ------------------------------------------------------------------------
\* Exceptions inside processTextNode
\* ------------------------------------------------------------------------

NextThrowing == Next \/ processBatchThrows

SpecThrowing == Init /\ [][NextThrowing]_vars

\* C25: when processTextNode raises an exception for a unit of a batch, that
\* unit is left as it was and not recorded as processed, every other eligible
\* unit of the batch is replaced, and the callback is scheduled again when
\* the queue is not empty.
FailureIsolated ==
    [][threw' # {} =>
          /\ \A n \in threw' : dom'[n[1]] = dom[n[1]] /\ text'[n[1]] = text[n[1]]
                               /\ n \notin processedNodes'
          /\ \A s \in Slots :
                (\E i \in 1..Len(batch') : batch'[i] = Node(s, "unit"))
                /\ Node(s, "unit") \notin threw' /\ Eligible(s) => dom'[s] = "wrapped"
          /\ pendingNodes' # <<>> => rafScheduled']_vars

\* C25, the case: a unit of a batch raised an exception, a later unit of the
\* batch was replaced and the queue was not empty
ThrewFirstWrappedSecond ==
    /\ \E i, j \in 1..Len(batch) :
          /\ i < j
          /\ batch[i] \in threw
          /\ batch[j] \notin threw
          /\ dom[batch[i][1]] = "text"
          /\ dom[batch[j][1]] = "wrapped"
    /\ pendingNodes # <<>>
    /\ rafScheduled

\* ------------------------------------------------------------------------
\* Detached units and order
\* ------------------------------------------------------------------------

\* C26: a unit of a batch that lost its parent after it was queued is
\* skipped: it is not replaced and not recorded, no exception is raised, the
\* eligible units of the same batch are replaced and the callback is
\* scheduled again when the queue is not empty.
DetachedSkipped ==
    [][\A s \in Slots :
          (\E i \in 1..Len(batch') : batch'[i] = Node(s, "unit")) /\ dom[s] = "removed" =>
              /\ dom'[s] = "removed"
              /\ xforms'[s] = xforms[s]
              /\ Node(s, "unit") \notin processedNodes'
              /\ Node(s, "span") \in processedNodes' => Node(s, "span") \in processedNodes
              /\ threw' = {}
              /\ \A t \in Slots :
                    (\E i \in 1..Len(batch') : batch'[i] = Node(t, "unit")) /\ Eligible(t)
                        => dom'[t] = "wrapped"
              /\ pendingNodes' # <<>> => rafScheduled']_vars

\* C26, the case: a batch held a unit removed from its parent and another
\* unit, which was replaced
DetachedInBatchOtherWrapped ==
    \E s, t \in Slots :
        /\ s # t
        /\ InBatch(Node(s, "unit")) /\ dom[s] = "removed"
        /\ InBatch(Node(t, "unit")) /\ dom[t] = "wrapped"

\* C27: the queue is first in, first out. A callback that takes a batch takes
\* the front of the queue, in queue order, and leaves the rest in order; every
\* other step that changes the queue empties it or adds to its end. So a unit
\* queued earlier is never taken after one queued later.
FifoOrder ==
    [][/\ batch' # <<>> =>
              /\ Len(batch') <= Len(pendingNodes)
              /\ batch' = SubSeq(pendingNodes, 1, Len(batch'))
              /\ pendingNodes' = Slice(pendingNodes, Len(batch') + 1, Len(pendingNodes))
       /\ batch' = <<>> =>
              \/ pendingNodes' = <<>>
              \/ /\ Len(pendingNodes') >= Len(pendingNodes)
                 /\ SubSeq(pendingNodes', 1, Len(pendingNodes)) = pendingNodes]_vars

\* C27, the case: a scan queued the units of both blocks in document order;
\* the callback took the first of them in that order and left the last
TookFrontInOrder ==
    /\ batch = <<Node(1, "unit"), Node(2, "unit"), Node(3, "unit")>>
    /\ pendingNodes = <<Node(5, "unit")>>
    /\ dom[1] = "wrapped"
    /\ dom[3] \in {"wrapped", "text"}

\* ------------------------------------------------------------------------
\* shouldSkipNode on every short chain of ancestors
\* ------------------------------------------------------------------------

MaxChain == 6

\* The elements a chain is made of: a paragraph, a code element, the user's
\* note, an editable region, a wrapper
WalkElements ==
    { El("P"), El("CODE"), [El("DIV") EXCEPT !.elementId = "user-note"],
      [El("DIV") EXCEPT !.contentEditable = "true"], WrapperSpan }

\* A text node's parent and ancestors up to the document node
WalkInit ==
    /\ TextIdle
    /\ SchedIdle
    /\ StabIdle
    /\ DebIdle
    /\ RatioIdle
    /\ ObIdle
    /\ \E n \in 0..MaxChain :
          \E c \in [1..n -> WalkElements] : wChain = c \o <<DocumentNode>>
    /\ wSkip = FALSE
    /\ wPhase = "input"

\* if (shouldSkipNode(node.parentNode)) return
WalkApply ==
    /\ wPhase = "input"
    /\ wSkip' = shouldSkipNode(wChain)
    /\ wPhase' = "done"
    /\ UNCHANGED <<wChain, textVars, schedVars, stabVars, debVars, ratioVars, obVars>>

SpecWalk == WalkInit /\ [][WalkApply]_vars

\* C28: shouldSkipNode finds the unit ineligible exactly when one of the 5
\* levels from the unit's parent upwards is a protected tag, the user-note or
\* message-input region, editable, or a wrapper; a chain that ends before, or
\* has its first such level beyond the fifth, leaves the unit eligible.
BoundedAncestorWalk ==
    wPhase = "done" =>
        (wSkip <=> \E i \in 1..Len(wChain) :
                       /\ i <= 5
                       /\ \/ ProtectedZone(wChain[i])
                          \/ wChain[i].className = "bionic-text-wrapper")

\* C28, the case: the walk left the bound, the sixth level is a code element
\* and the unit is eligible
WalkLeftBound ==
    /\ wPhase = "done"
    /\ ~wSkip
    /\ Len(wChain) > 6
    /\ wChain[6] = El("CODE")

\* The pending-blocks script of extension/bionic-reading.js
\* ------------------------------------------------------------------------

\* pendingBlocks.size > 20, scaled to the three blocks of the model
PENDING_LIMIT == 2

\* CONFIG.DEBOUNCE_MS in ticks
DEBOUNCE_TICKS == 2

\* the nesting of wrappers the model tells apart: a depth of MaxNest stands
\* for MaxNest levels or more
MaxNest == 3

\* one wrapper more inside the deepest one
deeper(depth) == IF depth < MaxNest THEN depth + 1 ELSE MaxNest

TextBlock == [state |-> "text", depth |-> 0, fresh |-> FALSE, marked |-> FALSE]

\* processBlock(block) of a block not marked as processed: every text node
\* outside the ignored tags whose transformation differs is replaced by a
\* wrapper, and the block is marked.
obProcessBlock(d) ==
    IF d.marked THEN d
    ELSE [state |-> "wrapped", depth |-> IF d.state = "wrapped" THEN deeper(d.depth) ELSE 1,
          fresh |-> FALSE, marked |-> TRUE]

\* processBlockIncremental(block): the walker rejects a text node only when
\* its parent is a wrapper or it lies under an ignored tag. The text of an
\* emphasized prefix has the <b> element as parent and is accepted;
\* processWord of this script emphasizes a core of any length
\* (getBoldLength is at least 1), so its transformation differs and it is
\* replaced by a wrapper inside the wrapper it is in. Plain text of the block
\* is replaced by a wrapper of its own.
processBlockIncremental(d) ==
    [state |-> "wrapped", depth |-> IF d.state = "wrapped" THEN deeper(d.depth) ELSE 1,
     fresh |-> FALSE, marked |-> TRUE]

\* revertBlock(block): every wrapper is replaced by its original text and the
\* mark is deleted.
obRevertBlock(d) ==
    IF d.state = "absent" THEN d
    ELSE [state |-> "text", depth |-> 0, fresh |-> FALSE, marked |-> FALSE]

\* the loop of processPendingBlocks over the blocks still in the document
obProcessAll(domNow, pending) ==
    [b \in ObsBlocks |->
        IF b \in pending /\ domNow[b].state # "absent"
        THEN processBlockIncremental(domNow[b]) ELSE domNow[b]]

\* runBionicProcessing past its guard
obRunBionicProcessing(domNow) ==
    [b \in ObsBlocks |->
        IF domNow[b].state # "absent" THEN obProcessBlock(domNow[b]) ELSE domNow[b]]

\* the blocks a pass of processPendingBlocks replaces text nodes in: every
\* pending block in the document, since a block holds plain text or a wrapper
\* whose prefix text the walker accepts
obPassMutates(domNow, pending) == {b \in pending : domNow[b].state # "absent"}

\* the blocks with a childList record between two trees otherwise
obMutated(old, new) ==
    {b \in ObsBlocks : <<old[b].state, old[b].depth, old[b].fresh>>
                        # <<new[b].state, new[b].depth, new[b].fresh>>}

obNotRun ==
    obRan' = FALSE /\ obInCallback' = FALSE /\ obQuiet' = 0 /\ obPasses' = obPasses

obOthers == <<textVars, schedVars, stabVars, debVars, ratioVars, walkVars>>

ObInit ==
    /\ TextIdle
    /\ SchedIdle
    /\ StabIdle
    /\ DebIdle
    /\ RatioIdle
    /\ WalkIdle
    /\ obEnabled \in BOOLEAN
    /\ obInitTimer = obEnabled
    /\ obPending = {}
    /\ obArmed = FALSE
    /\ obWait = 0
    /\ obRecords = {}
    /\ obDom \in [ObsBlocks -> {AbsentBlock, TextBlock}]
    /\ obRan = FALSE
    /\ obInCallback = FALSE
    /\ obQuiet = 0
    /\ obPasses = 0

\* the host adds a response block
obHostAddBlock ==
    \E b \in ObsBlocks :
        /\ obRecords = {}
        /\ obDom[b].state = "absent"
        /\ obDom' = [obDom EXCEPT ![b] = TextBlock]
        /\ obRecords' = {b}
        /\ obNotRun
        /\ UNCHANGED <<obEnabled, obInitTimer, obPending, obArmed, obWait, obOthers>>

\* the host streams more text into a block
obHostAppendText ==
    \E b \in ObsBlocks :
        /\ obRecords = {}
        /\ obDom[b].state # "absent"
        /\ obDom' = [obDom EXCEPT ![b].fresh = (obDom[b].state = "wrapped")]
        /\ obRecords' = {b}
        /\ obNotRun
        /\ UNCHANGED <<obEnabled, obInitTimer, obPending, obArmed, obWait, obOthers>>

\* the MutationObserver callback
obCallback ==
    /\ obRecords # {}
    /\ IF ~obEnabled
       THEN /\ obPending' = {}
            /\ obRecords' = {}
            /\ obNotRun
            /\ UNCHANGED <<obArmed, obWait, obDom>>
       ELSE LET pending == obPending \cup obRecords
            IN  IF Cardinality(pending) > PENDING_LIMIT
                THEN /\ obDom' = obProcessAll(obDom, pending)
                     /\ obPending' = {}
                     /\ obArmed' = FALSE
                     /\ obWait' = 0
                     /\ obRecords' = obPassMutates(obDom, pending)
                     /\ obRan' = TRUE
                     /\ obInCallback' = TRUE
                     /\ obQuiet' = 0
                     /\ obPasses' = 1 - obPasses
                ELSE /\ obPending' = pending
                     /\ obArmed' = TRUE
                     /\ obWait' = 0
                     /\ obRecords' = {}
                     /\ obNotRun
                     /\ UNCHANGED obDom
    /\ UNCHANGED <<obEnabled, obInitTimer, obOthers>>

\* time passes while processingTimeout is pending
obTick ==
    /\ obRecords = {}
    /\ obArmed
    /\ obWait < DEBOUNCE_TICKS
    /\ obWait' = obWait + 1
    /\ obNotRun
    /\ UNCHANGED <<obEnabled, obInitTimer, obPending, obArmed, obRecords, obDom, obOthers>>

\* processingTimeout fires: processPendingBlocks
obTimeoutFires ==
    /\ obRecords = {}
    /\ obArmed
    /\ obWait = DEBOUNCE_TICKS
    /\ obArmed' = FALSE
    /\ obWait' = 0
    /\ IF ~obEnabled
       THEN /\ obNotRun
            /\ UNCHANGED <<obPending, obRecords, obDom>>
       ELSE /\ obDom' = obProcessAll(obDom, obPending)
            /\ obPending' = {}
            /\ obRecords' = obPassMutates(obDom, obPending)
            /\ obRan' = TRUE
            /\ obInCallback' = FALSE
            /\ obQuiet' = obWait
            /\ obPasses' = 1 - obPasses
    /\ UNCHANGED <<obEnabled, obInitTimer, obOthers>>

\* init's setTimeout(runBionicProcessing, 100) fires
obInitTimerFires ==
    /\ obRecords = {}
    /\ obInitTimer
    /\ obInitTimer' = FALSE
    /\ obDom' = IF obEnabled THEN obRunBionicProcessing(obDom) ELSE obDom
    /\ obRecords' = obMutated(obDom, obDom')
    /\ obNotRun
    /\ UNCHANGED <<obEnabled, obPending, obArmed, obWait, obOthers>>

\* toggleExtension
obToggleExtension ==
    /\ obRecords = {}
    /\ obEnabled' = ~obEnabled
    /\ obDom' = IF obEnabled'
                THEN obRunBionicProcessing(obDom)
                ELSE [b \in ObsBlocks |-> obRevertBlock(obDom[b])]
    /\ obRecords' = obMutated(obDom, obDom')
    /\ obNotRun
    /\ UNCHANGED <<obInitTimer, obPending, obArmed, obWait, obOthers>>

ObNext ==
    \/ obHostAddBlock
    \/ obHostAppendText
    \/ obCallback
    \/ obTick
    \/ obTimeoutFires
    \/ obInitTimerFires
    \/ obToggleExtension

SpecObs == ObInit /\ [][ObNext]_vars

\* C29: no response block ever holds a wrapper inside a wrapper: incremental
\* processing of a block that already has wrappers adds none inside them,
\* the text of the emphasized prefixes included.
NoWrapperInsideWrapper == \A b \in ObsBlocks : obDom[b].depth <= 1

\* C30: whenever processPendingBlocks runs, it runs from the timer, after
\* DEBOUNCE_MS without an observed mutation, and never inside the mutation
\* callback.
ProcessedAfterQuietWait ==
    obRan => (~obInCallback /\ obQuiet >= DEBOUNCE_TICKS)

\* ------------------------------------------------------------------------
\* Re-queueing, draining and the frame callback
\* ------------------------------------------------------------------------

\* How often node n stands in queue q
Occurrences(q, n) == Cardinality({i \in 1..Len(q) : q[i] = n})

\* n is a unit marked processed, or a text node inside an attached wrapper
ProcessedOrInsideWrapper(n) ==
    \/ n \in processedNodes
    \/ n[2] \in {"bold", "rest"} /\ dom[n[1]] = "wrapped"

AllNodes == {Node(s, p) : s \in Slots, p \in Parts}

\* C31: no step inserts into the Pending Queue a unit that is marked
\* processed or a text node that lies inside an existing wrapper, rescans on
\* a visibility notification or a toggle-on included.
NoRequeueOfProcessed ==
    [][\A n \in AllNodes :
          ProcessedOrInsideWrapper(n) =>
              Occurrences(pendingNodes', n) <= Occurrences(pendingNodes, n)]_vars

\* C33: whenever the Pending Queue is not empty, rafScheduled is true and a
\* processBatch frame callback is outstanding.
NoLostWakeup == pendingNodes # <<>> => rafScheduled /\ rafCallbacks > 0

\* C33: units were queued while the extension is disabled and the callback
\* requested for them is outstanding
QueuedWhileDisabledWithFrame == ~isEnabled /\ pendingNodes # <<>> /\ rafCallbacks > 0

\* C34: at most one processBatch frame callback is outstanding, and
\* rafScheduled is true exactly when one is.
SingleFrameCallback == rafCallbacks <= 1 /\ (rafScheduled <=> rafCallbacks = 1)

\* C34: a toggle-off and toggle-on pair ran with units queued again, one
\* callback outstanding
TogglePairOneCallback ==
    toggleRun = 2 /\ flagBeforeBoth /\ isEnabled /\ pendingNodes # <<>> /\ rafCallbacks = 1

\* A step that inserts a node into the Pending Queue
Enqueues == \E n \in AllNodes : Occurrences(pendingNodes', n) > Occurrences(pendingNodes, n)

\* C32: when frame callbacks keep running and only finitely many steps
\* enqueue, the Pending Queue ends up empty for good: every unit accepted
\* into it has left it.
QueueDrains == []<><<Enqueues>>_vars \/ <>[](pendingNodes = <<>>)

\* C32: the last batch emptied the queue; it held a unit that was replaced
\* and a unit that was judged ineligible and left as it was
QueueEmptiedBothWays ==
    /\ pendingNodes = <<>>
    /\ rafCallbacks = 0
    /\ InBatch(Node(1, "unit")) /\ dom[1] = "wrapped"
    /\ InBatch(Node(2, "unit")) /\ dom[2] = "text"

\* ------------------------------------------------------------------------
\* Quiescence of the pending-blocks script
\* ------------------------------------------------------------------------

\* The browser delivers mutation records, time passes and timers fire.
FairSpecObs ==
    SpecObs /\ WF_vars(obCallback) /\ WF_vars(obTick) /\ WF_vars(obTimeoutFires)

\* A step of the host or the user, or init's timer
obOutsideStep ==
    obHostAddBlock \/ obHostAppendText \/ obToggleExtension \/ obInitTimerFires

\* C35: unless the host or the user keeps acting, the script comes to rest:
\* from some point on no timer is pending, no mutation record is waiting and
\* no processing pass runs.
ObserverQuiesces ==
    []<><<obOutsideStep>>_vars \/ <>[](~obArmed /\ obRecords = {} /\ ~obRan)

\* ------------------------------------------------------------------------
\* Toggle pairs
\* ------------------------------------------------------------------------

\* C36 as stated: two toggleExtension calls in a row from a state at rest
\* return the Enabled Flag and the stored preference to their values before
\* the pair and leave the markup-stripped text of every slot as it was.
TogglePairRestoresAll ==
    toggleRun = 2 /\ snapBeforeBoth.quiet =>
        /\ isEnabled = flagBeforeBoth
        /\ storedState = snapBeforeBoth.stored
        /\ StrippedText = StrippedBefore(snapBeforeBoth)

\* C36: two toggleExtension calls in a row from a state at rest return the
\* Enabled Flag to its value before the pair, leave the stored preference
\* equal to that flag's string (its value before the pair whenever one was
\* stored), and leave the markup-stripped text of every slot as it was.
TogglePairRestoresFlagAndText ==
    toggleRun = 2 /\ snapBeforeBoth.quiet =>
        /\ isEnabled = flagBeforeBoth
        /\ storedState = storeFlag(flagBeforeBoth)
        /\ snapBeforeBoth.stored # "null" => storedState = snapBeforeBoth.stored
        /\ StrippedText = StrippedBefore(snapBeforeBoth)

\* C36: the script was at rest and enabled with the unit of slot 3 replaced
\* by a wrapper, then toggled off and on: the unit is plain text again
TogglePairOverWrapper ==
    /\ toggleRun = 2
    /\ snapBeforeBoth.quiet
    /\ isEnabled
    /\ snapBeforeBoth.dom[3] = "wrapped"
    /\ StrippedBefore(snapBeforeBoth)[3] # original[3]
    /\ dom[3] = "text"

\* ------------------------------------------------------------------------
\* The observers of the response blocks
\* ------------------------------------------------------------------------

\* C37: a response block has at most one connected observer of
\* observeResponseBlock, and responseBlockCache holds exactly the blocks that
\* have one.
OneWatchPerBlock ==
    \A b \in Blocks :
        /\ blockObservers[b] <= 1
        /\ b \in responseBlockCache <=> blockObservers[b] = 1

\* C37: after a toggle-off and a toggle-on, with an IntersectionObserver of
\* an earlier setup still reporting, both blocks were notified visible, block
\* 1 again after its unit was replaced, and each has its one observer
WatchedAgainAfterToggle ==
    /\ isEnabled
    /\ ioOrphans # {}
    /\ responseBlockCache = {1, 2}
    /\ blockObservers[1] = 1
    /\ blockObservers[2] = 1
    /\ dom[1] = "wrapped"
    /\ InQueue(Node(1, "bold"))
    /\ ~scanned

====
